---- MODULE Spec2Model ----
(***************************************************************************)
(* Turn scheduler and simulation pipeline of the roguelike.                *)
(*                                                                         *)
(* One frame (State::tick, src/src/main.rs:70-145) is one action.  The     *)
(* entity-component store `ecs` is a record with one field per component   *)
(* storage (a function whose domain is the set of entities holding the     *)
(* component) and one field per resource.  The systems that live in        *)
(* modules outside src/ (visibility, monster AI, map indexing, combat,     *)
(* damage, inventory, the menus, the spawner and the map) are modelled     *)
(* from sections 3 and 4 of the specification.                             *)
(***************************************************************************)
EXTENDS Integers, Sequences, FiniteSets, TLC

VARIABLES
    runstate,      \* the RunState resource
    ecs,           \* State.ecs: component storages and the other resources
    frame_state,   \* history: the RunState the latest frame dispatched on
    key,           \* history: the input the latest frame received
    systems_run,   \* history: the systems the latest frame executed, in order
    mob_view       \* history: what MonsterAI found when it last ran

vars == <<runstate, ecs, frame_state, key, systems_run, mob_view>>

----------------------------------------------------------------------------
(* Bounds of the model *)

MapWidth == 5          \* Map.width  (80 in the game)
MapHeight == 4         \* Map.height (50 in the game)
NumMonsters == 2
NumItems == 1
MaxLog == 1            \* the game log keeps its MaxLog latest entries
MaxOverkill == 1       \* frames stop once the player's hp is <= -MaxOverkill

(* Program constants *)

MaxX == 79             \* player.rs:31
MaxY == 49             \* player.rs:32

(* Values the spawner gives (spawner.rs is outside src/) *)

ViewRange == 2
PlayerMaxHp == 6
PlayerDefense == 0
PlayerPower == 3
MonsterMaxHp == 2
MonsterDefense == 1
MonsterDefenseHigh == 3    \* every second monster is of the tougher kind
MonsterPower == 1
HealAmount == 2

----------------------------------------------------------------------------
(* Entities, in creation order: main.rs:183 creates the player first, then *)
(* main.rs:187-189 the monsters and items of the rooms.                    *)

PlayerEntity == 0
Monsters == 1 .. NumMonsters
Items == (NumMonsters + 1) .. (NumMonsters + NumItems)
Entities == 0 .. (NumMonsters + NumItems)

(* Component storages: functions from the entities holding the component.  *)

Insert(storage, e, v) == [x \in DOMAIN storage \cup {e} |-> IF x = e THEN v ELSE storage[x]]
Remove(storage, e) == [x \in DOMAIN storage \ {e} |-> storage[x]]
Empty == [x \in {} |-> 0]

----------------------------------------------------------------------------
(* The map *)

MapPoints == (0 .. MapWidth - 1) \X (0 .. MapHeight - 1)
xy_idx(x, y) == y * MapWidth + x
idx_of(p) == xy_idx(p[1], p[2])
point_of(i) == <<i % MapWidth, i \div MapWidth>>
TileIdx == 0 .. (MapWidth * MapHeight - 1)

\* The generator keeps the border Wall; the interior models one carved room.
IsWall(p) == p[1] = 0 \/ p[1] = MapWidth - 1 \/ p[2] = 0 \/ p[2] = MapHeight - 1
FloorPoints == {p \in MapPoints : ~IsWall(p)}

\* rooms[0].center(), where main.rs:180 puts the player
PlayerStart == <<1, 1>>

Min(a, b) == IF a < b THEN a ELSE b
Max(a, b) == IF a > b THEN a ELSE b
Abs(a) == IF a < 0 THEN -a ELSE a
Sgn(a) == IF a > 0 THEN 1 ELSE IF a < 0 THEN -1 ELSE 0

RECURSIVE SumSeq(_)
SumSeq(s) == IF s = <<>> THEN 0 ELSE Head(s) + SumSeq(Tail(s))

\* The entities of a set as a sequence in ascending id, the join order.
RECURSIVE InOrder(_)
InOrder(S) ==
    IF S = {} THEN <<>>
    ELSE LET m == CHOOSE x \in S : \A y \in S : x <= y
         IN <<m>> \o InOrder(S \ {m})

\* GameLog.entries.push, keeping the MaxLog latest entries
Log(w, line) ==
    LET l == Append(w.gamelog, line)
    IN [w EXCEPT !.gamelog = IF Len(l) > MaxLog THEN Tail(l) ELSE l]

----------------------------------------------------------------------------
(* Entity destruction: the entity leaves every storage.                    *)

DeleteEntity(w, e) ==
    [w EXCEPT !.entities = @ \ {e},
              !.position = Remove(@, e),
              !.viewshed = Remove(@, e),
              !.monster = @ \ {e},
              !.blocks_tile = @ \ {e},
              !.combat_stats = Remove(@, e),
              !.wants_to_melee = Remove(@, e),
              !.suffer_damage = Remove(@, e),
              !.item = @ \ {e},
              !.potion = Remove(@, e),
              !.in_backpack = Remove(@, e),
              !.wants_to_pickup = Remove(@, e),
              !.wants_to_drink = Remove(@, e),
              !.wants_to_drop = Remove(@, e)]

----------------------------------------------------------------------------
(* Visibility system (section 4.2).  In a room without inner walls the     *)
(* range-limited field of view is every map tile within the range.         *)

FieldOfView(p) ==
    {q \in MapPoints :
        (q[1] - p[1]) * (q[1] - p[1]) + (q[2] - p[2]) * (q[2] - p[2]) <= ViewRange * ViewRange}

VisibilitySystem(w) ==
    [w EXCEPT !.viewshed =
        [e \in DOMAIN w.viewshed |->
            IF w.viewshed[e].dirty /\ e \in DOMAIN w.position
            THEN [visible_tiles |-> FieldOfView(w.position[e]), dirty |-> FALSE]
            ELSE w.viewshed[e]]]

----------------------------------------------------------------------------
(* Map indexing system (section 4.3) *)

MapIndexingSystem(w) ==
    [w EXCEPT !.map =
        [blocked |->
            [i \in TileIdx |->
                IsWall(point_of(i))
                \/ (\E e \in w.blocks_tile \cap DOMAIN w.position : idx_of(w.position[e]) = i)],
         tile_content |->
            [i \in TileIdx |->
                InOrder({e \in DOMAIN w.position : idx_of(w.position[e]) = i})]]]

----------------------------------------------------------------------------
(* Monster AI system (section 4.4) *)

Adjacent(p, q) == Abs(p[1] - q[1]) <= 1 /\ Abs(p[2] - q[2]) <= 1

\* One greedy step from p toward q that respects the blocked index: the
\* diagonal step first, then the step along x, then the step along y.
GreedyStep(w, p, q) ==
    LET sx == Sgn(q[1] - p[1])
        sy == Sgn(q[2] - p[2])
        cand == <<<<p[1] + sx, p[2] + sy>>, <<p[1] + sx, p[2]>>, <<p[1], p[2] + sy>>>>
        ok(c) == c # p /\ c \in MapPoints /\ ~w.map.blocked[idx_of(c)]
    IN IF ok(cand[1]) THEN cand[1]
       ELSE IF ok(cand[2]) THEN cand[2]
       ELSE IF ok(cand[3]) THEN cand[3]
       ELSE p

MonsterAct(w, e) ==
    IF w.ppos \in w.viewshed[e].visible_tiles
    THEN IF Adjacent(w.position[e], w.ppos)
         THEN [w EXCEPT !.wants_to_melee = Insert(@, e, [target |-> PlayerEntity])]
         ELSE LET d == GreedyStep(w, w.position[e], w.ppos)
              IN IF d = w.position[e] THEN w
                 ELSE [w EXCEPT !.position[e] = d, !.viewshed[e].dirty = TRUE]
    ELSE w

RECURSIVE MonsterPass(_, _)
MonsterPass(w, es) ==
    IF es = <<>> THEN w ELSE MonsterPass(MonsterAct(w, Head(es)), Tail(es))

MonsterAI(w) ==
    MonsterPass(w, InOrder(w.monster \cap DOMAIN w.viewshed \cap DOMAIN w.position))

----------------------------------------------------------------------------
(* Melee combat system (section 4.5) *)

MeleeOne(w, e) ==
    LET t == w.wants_to_melee[e].target
    IN IF e \in DOMAIN w.combat_stats /\ t \in DOMAIN w.combat_stats
       THEN LET damage == Max(1, w.combat_stats[e].power - w.combat_stats[t].defense)
                pending == IF t \in DOMAIN w.suffer_damage THEN w.suffer_damage[t].amount ELSE <<>>
            IN Log([w EXCEPT !.suffer_damage =
                        Insert(@, t, [amount |-> Append(pending, damage)])], "hit")
       ELSE w

RECURSIVE MeleePass(_, _)
MeleePass(w, es) ==
    IF es = <<>> THEN w ELSE MeleePass(MeleeOne(w, Head(es)), Tail(es))

MeleeCombatSystem(w) ==
    [MeleePass(w, InOrder(DOMAIN w.wants_to_melee)) EXCEPT !.wants_to_melee = Empty]

----------------------------------------------------------------------------
(* Damage system (section 4.6) *)

DamageSystem(w) ==
    [w EXCEPT
        !.combat_stats =
            [e \in DOMAIN w.combat_stats |->
                IF e \in DOMAIN w.suffer_damage
                THEN [w.combat_stats[e] EXCEPT !.hp = @ - SumSeq(w.suffer_damage[e].amount)]
                ELSE w.combat_stats[e]],
        !.suffer_damage = Empty]

RECURSIVE SweepPass(_, _)
SweepPass(w, es) ==
    IF es = <<>> THEN w
    ELSE SweepPass(Log(DeleteEntity(w, Head(es)), "dead"), Tail(es))

\* The sweep: the dead player makes the game state terminal, every other dead
\* entity is destroyed with a death log line.
delete_the_dead(w) ==
    LET dead == {e \in DOMAIN w.combat_stats : w.combat_stats[e].hp <= 0}
        w1 == IF PlayerEntity \in dead THEN [w EXCEPT !.game_over = TRUE] ELSE w
    IN SweepPass(w1, InOrder(dead \ {PlayerEntity}))

----------------------------------------------------------------------------
(* Inventory systems (section 4.7) *)

PickupOne(w, e) ==
    LET want == w.wants_to_pickup[e]
    IN Log([w EXCEPT !.position = Remove(@, want.item),
                     !.in_backpack = Insert(@, want.item, [owner |-> want.collected_by])],
           "pickup")

RECURSIVE PickupPass(_, _)
PickupPass(w, es) ==
    IF es = <<>> THEN w ELSE PickupPass(PickupOne(w, Head(es)), Tail(es))

ItemCollectionSystem(w) ==
    [PickupPass(w, InOrder(DOMAIN w.wants_to_pickup)) EXCEPT !.wants_to_pickup = Empty]

PotionOne(w, e) ==
    LET p == w.wants_to_drink[e].potion
    IN IF p \in DOMAIN w.potion /\ e \in DOMAIN w.combat_stats
       THEN LET healed == [w EXCEPT !.combat_stats[e].hp =
                              Min(w.combat_stats[e].max_hp, @ + w.potion[p].heal_amount)]
            IN Log(DeleteEntity(healed, p), "drink")
       ELSE w

RECURSIVE PotionPass(_, _)
PotionPass(w, es) ==
    IF es = <<>> THEN w ELSE PotionPass(PotionOne(w, Head(es)), Tail(es))

PotionUseSystem(w) ==
    [PotionPass(w, InOrder(DOMAIN w.wants_to_drink)) EXCEPT !.wants_to_drink = Empty]

DropOne(w, e) ==
    LET i == w.wants_to_drop[e].item
    IN Log([w EXCEPT !.position = Insert(@, i, w.position[e]),
                     !.in_backpack = Remove(@, i)],
           "drop")

RECURSIVE DropPass(_, _)
DropPass(w, es) ==
    IF es = <<>> THEN w ELSE DropPass(DropOne(w, Head(es)), Tail(es))

ItemDropSystem(w) ==
    [DropPass(w, InOrder(DOMAIN w.wants_to_drop)) EXCEPT !.wants_to_drop = Empty]

----------------------------------------------------------------------------
(* State::run_systems (main.rs:39-66) *)

SystemOrderIndexFirst ==
    <<"map_index", "visibility", "monster_ai", "melee_combat",
      "damage", "item_pickup", "potion_use", "item_drop">>

SystemOrderMobFirst ==
    <<"monster_ai", "visibility", "map_index", "melee_combat",
      "damage", "item_pickup", "potion_use", "item_drop">>

SystemOrderDamageFirst ==
    <<"visibility", "monster_ai", "map_index", "damage",
      "melee_combat", "item_pickup", "potion_use", "item_drop">>

SystemOrder ==
    <<"visibility", "monster_ai", "map_index", "melee_combat",
      "damage", "item_pickup", "potion_use", "item_drop">>

RunSystem(name, w) ==
    CASE name = "visibility" -> VisibilitySystem(w)
      [] name = "monster_ai" -> MonsterAI(w)
      [] name = "map_index" -> MapIndexingSystem(w)
      [] name = "melee_combat" -> MeleeCombatSystem(w)
      [] name = "damage" -> DamageSystem(w)
      [] name = "item_pickup" -> ItemCollectionSystem(w)
      [] name = "potion_use" -> PotionUseSystem(w)
      [] name = "item_drop" -> ItemDropSystem(w)

RECURSIVE RunInOrder(_, _)
RunInOrder(w, order) ==
    IF order = <<>> THEN w
    ELSE RunInOrder(RunSystem(Head(order), w), Tail(order))

run_systems_without_item_drop(w) ==
    RunInOrder(w, SelectSeq(SystemOrder, LAMBDA n : n # "item_drop"))

run_systems_without_potion_use(w) ==
    RunInOrder(w, SelectSeq(SystemOrder, LAMBDA n : n # "potion_use"))

run_systems_without_melee(w) ==
    RunInOrder(w, SelectSeq(SystemOrder, LAMBDA n : n # "melee_combat"))

run_systems(w) == RunInOrder(w, SystemOrder)

\* The store as the system `name` finds it in a pipeline run started on w.
RECURSIVE Before(_, _, _)
Before(name, w, order) ==
    IF order = <<>> \/ Head(order) = name THEN w
    ELSE Before(name, RunSystem(Head(order), w), Tail(order))

\* What MonsterAI finds when it runs: whether every Viewshed has been
\* recomputed, whether a monster takes a step (and so reads the blocked
\* index), and whether that index agrees with the Positions of that moment.
MobView(w) ==
    LET v == Before("monster_ai", w, SystemOrder)
    IN [viewsheds_clean |-> \A e \in DOMAIN v.viewshed : ~v.viewshed[e].dirty,
        queried |-> \E e \in v.monster \cap DOMAIN v.viewshed \cap DOMAIN v.position :
                        /\ v.ppos \in v.viewshed[e].visible_tiles
                        /\ ~Adjacent(v.position[e], v.ppos),
        blocked_fresh |-> v.map.blocked = MapIndexingSystem(v).map.blocked]

----------------------------------------------------------------------------
(* player.rs *)

try_move_player_keeps_point(delta_x, delta_y, w) ==
    LET pos == w.position[PlayerEntity]
        nx == pos[1] + delta_x
        ny == pos[2] + delta_y
    IN IF nx < 1 \/ nx > MapWidth - 1 \/ ny < 1 \/ ny > MapHeight - 1
       THEN w
       ELSE LET destination_idx == xy_idx(nx, ny)
                targets == SelectSeq(w.map.tile_content[destination_idx],
                                     LAMBDA t : t \in DOMAIN w.combat_stats)
                dest == <<Min(MaxX, Max(0, nx)), Min(MaxY, Max(0, ny))>>
            IN IF targets # <<>>
               THEN [w EXCEPT !.wants_to_melee =
                        Insert(@, PlayerEntity, [target |-> Head(targets)])]
               ELSE IF ~w.map.blocked[destination_idx]
               THEN [w EXCEPT !.position[PlayerEntity] = dest,
                              !.viewshed[PlayerEntity].dirty = TRUE]
               ELSE w

try_move_player_ignores_blocked(delta_x, delta_y, w) ==
    LET pos == w.position[PlayerEntity]
        nx == pos[1] + delta_x
        ny == pos[2] + delta_y
    IN IF nx < 1 \/ nx > MapWidth - 1 \/ ny < 1 \/ ny > MapHeight - 1
       THEN w
       ELSE LET destination_idx == xy_idx(nx, ny)
                targets == SelectSeq(w.map.tile_content[destination_idx],
                                     LAMBDA t : t \in DOMAIN w.combat_stats)
                dest == <<Min(MaxX, Max(0, nx)), Min(MaxY, Max(0, ny))>>
            IN IF targets # <<>>
               THEN [w EXCEPT !.wants_to_melee =
                        Insert(@, PlayerEntity, [target |-> Head(targets)])]
               ELSE [w EXCEPT !.position[PlayerEntity] = dest,
                              !.ppos = dest,
                              !.viewshed[PlayerEntity].dirty = TRUE]

try_move_player_blocked_first(delta_x, delta_y, w) ==
    LET pos == w.position[PlayerEntity]
        nx == pos[1] + delta_x
        ny == pos[2] + delta_y
    IN IF nx < 1 \/ nx > MapWidth - 1 \/ ny < 1 \/ ny > MapHeight - 1
       THEN w
       ELSE LET destination_idx == xy_idx(nx, ny)
                targets == SelectSeq(w.map.tile_content[destination_idx],
                                     LAMBDA t : t \in DOMAIN w.combat_stats)
                dest == <<Min(MaxX, Max(0, nx)), Min(MaxY, Max(0, ny))>>
            IN IF w.map.blocked[destination_idx]
               THEN w
               ELSE IF targets # <<>>
               THEN [w EXCEPT !.wants_to_melee =
                        Insert(@, PlayerEntity, [target |-> Head(targets)])]
               ELSE [w EXCEPT !.position[PlayerEntity] = dest,
                              !.ppos = dest,
                              !.viewshed[PlayerEntity].dirty = TRUE]

try_move_player(delta_x, delta_y, w) ==
    LET pos == w.position[PlayerEntity]
        nx == pos[1] + delta_x
        ny == pos[2] + delta_y
    IN IF nx < 1 \/ nx > MapWidth - 1 \/ ny < 1 \/ ny > MapHeight - 1
       THEN w
       ELSE LET destination_idx == xy_idx(nx, ny)
                targets == SelectSeq(w.map.tile_content[destination_idx],
                                     LAMBDA t : t \in DOMAIN w.combat_stats)
                dest == <<Min(MaxX, Max(0, nx)), Min(MaxY, Max(0, ny))>>
            IN IF targets # <<>>
               THEN [w EXCEPT !.wants_to_melee =
                        Insert(@, PlayerEntity, [target |-> Head(targets)])]
               ELSE IF ~w.map.blocked[destination_idx]
               THEN [w EXCEPT !.position[PlayerEntity] = dest,
                              !.ppos = dest,
                              !.viewshed[PlayerEntity].dirty = TRUE]
               ELSE w

get_item_anywhere(w) ==
    LET here == w.item \cap DOMAIN w.position
    IN IF here = {}
       THEN Log(w, "nothing")
       ELSE LET target_item == CHOOSE i \in here : \A j \in here : j <= i
            IN [w EXCEPT !.wants_to_pickup =
                    Insert(@, PlayerEntity,
                           [collected_by |-> PlayerEntity, item |-> target_item])]

get_item(w) ==
    LET here == {i \in w.item \cap DOMAIN w.position : w.position[i] = w.ppos}
    IN IF here = {}
       THEN Log(w, "nothing")
       ELSE LET target_item == CHOOSE i \in here : \A j \in here : j <= i
            IN [w EXCEPT !.wants_to_pickup =
                    Insert(@, PlayerEntity,
                           [collected_by |-> PlayerEntity, item |-> target_item])]

MoveKeys == {"Left", "Right", "Up", "Down", "E", "Q", "C", "Y"}
Keys == {"None", "G", "I", "N", "Escape", "Other"} \cup MoveKeys

DeltaX(k) == CASE k \in {"Left", "Q", "Y"} -> -1
               [] k \in {"Right", "E", "C"} -> 1
               [] OTHER -> 0
DeltaY(k) == CASE k \in {"Up", "E", "Q"} -> -1
               [] k \in {"Down", "C", "Y"} -> 1
               [] OTHER -> 0

\* player.rs:81
EscapeStateTakesTurn == "PlayerTurn"

EscapeState == "SaveGame"

player_input_menus_swapped(w, k) ==
    CASE k = "None" -> [runstate |-> "AwaitingInput", ecs |-> w]
      [] k \in MoveKeys ->
            [runstate |-> "PlayerTurn", ecs |-> try_move_player(DeltaX(k), DeltaY(k), w)]
      [] k = "G" -> [runstate |-> "PlayerTurn", ecs |-> get_item(w)]
      [] k = "I" -> [runstate |-> "ShowDropItem", ecs |-> w]
      [] k = "N" -> [runstate |-> "ShowInventory", ecs |-> w]
      [] k = "Escape" -> [runstate |-> EscapeState, ecs |-> w]
      [] OTHER -> [runstate |-> "AwaitingInput", ecs |-> w]

player_input(w, k) ==
    CASE k = "None" -> [runstate |-> "AwaitingInput", ecs |-> w]
      [] k \in MoveKeys ->
            [runstate |-> "PlayerTurn", ecs |-> try_move_player(DeltaX(k), DeltaY(k), w)]
      [] k = "G" -> [runstate |-> "PlayerTurn", ecs |-> get_item(w)]
      [] k = "I" -> [runstate |-> "ShowInventory", ecs |-> w]
      [] k = "N" -> [runstate |-> "ShowDropItem", ecs |-> w]
      [] k = "Escape" -> [runstate |-> EscapeState, ecs |-> w]
      [] OTHER -> [runstate |-> "AwaitingInput", ecs |-> w]

----------------------------------------------------------------------------
(* The menus (gui.rs): the items the player carries can be selected.       *)

Carried(w) == {i \in DOMAIN w.in_backpack : w.in_backpack[i].owner = PlayerEntity}

MenuResults(w) ==
    {[result |-> "Cancel", item |-> -1], [result |-> "NoResponse", item |-> -1]}
    \cup {[result |-> "Selected", item |-> i] : i \in Carried(w)}

----------------------------------------------------------------------------
(* State::tick (main.rs:70-145).  Each arm of the match gives the new       *)
(* RunState, the store it leaves and the systems it ran.                   *)

\* main.rs:81-85
pre_run_arm(w) ==
    [runstate |-> "AwaitingInput", ecs |-> run_systems(w), ran |-> SystemOrder]

\* main.rs:86-88
awaiting_input_arm_every_frame(w, k) ==
    [runstate |-> player_input(w, k).runstate,
     ecs |-> run_systems(player_input(w, k).ecs),
     ran |-> SystemOrder]

awaiting_input_arm(w, k) ==
    [runstate |-> player_input(w, k).runstate, ecs |-> player_input(w, k).ecs, ran |-> <<>>]

\* main.rs:89-93
player_turn_arm_skips_monsters(w) ==
    [runstate |-> "AwaitingInput", ecs |-> run_systems(w), ran |-> SystemOrder]

player_turn_arm(w) ==
    [runstate |-> "MonsterTurn", ecs |-> run_systems(w), ran |-> SystemOrder]

\* main.rs:94-98
monster_turn_arm(w) ==
    [runstate |-> "AwaitingInput", ecs |-> run_systems(w), ran |-> SystemOrder]

\* main.rs:99-111
show_inventory_arm_drops(w, r) ==
    CASE r.result = "Cancel" -> [runstate |-> "AwaitingInput", ecs |-> w, ran |-> <<>>]
      [] r.result = "NoResponse" -> [runstate |-> "ShowInventory", ecs |-> w, ran |-> <<>>]
      [] r.result = "Selected" ->
            [runstate |-> "PlayerTurn",
             ecs |-> [w EXCEPT !.wants_to_drop =
                         Insert(@, PlayerEntity, [item |-> r.item])],
             ran |-> <<>>]

show_inventory_arm(w, r) ==
    CASE r.result = "Cancel" -> [runstate |-> "AwaitingInput", ecs |-> w, ran |-> <<>>]
      [] r.result = "NoResponse" -> [runstate |-> "ShowInventory", ecs |-> w, ran |-> <<>>]
      [] r.result = "Selected" ->
            [runstate |-> "PlayerTurn",
             ecs |-> [w EXCEPT !.wants_to_drink =
                         Insert(@, PlayerEntity, [potion |-> r.item])],
             ran |-> <<>>]

\* main.rs:112-124
show_drop_item_arm(w, r) ==
    CASE r.result = "Cancel" -> [runstate |-> "AwaitingInput", ecs |-> w, ran |-> <<>>]
      [] r.result = "NoResponse" -> [runstate |-> "ShowDropItem", ecs |-> w, ran |-> <<>>]
      [] r.result = "Selected" ->
            [runstate |-> "PlayerTurn",
             ecs |-> [w EXCEPT !.wants_to_drop =
                         Insert(@, PlayerEntity, [item |-> r.item])],
             ran |-> <<>>]

\* The match of main.rs:80-125 has no arm for the RunState player.rs:81
\* returns: nothing runs and the state read at main.rs:75 is kept.
no_arm(w, state) == [runstate |-> state, ecs |-> w, ran |-> <<>>]

\* main.rs:127-131: after the new RunState is stored the dead are swept
end_of_frame_no_sweep(w) == w

end_of_frame(w) == delete_the_dead(w)

\* the pipeline frames run while the player's hp is above -MaxOverkill
WithinBounds == ecs.combat_stats[PlayerEntity].hp > -MaxOverkill

\* One frame that dispatched on the RunState `from`, got the input k and
\* took the arm with outcome r.
Frame(from, k, r) ==
    /\ runstate' = r.runstate
    /\ ecs' = end_of_frame(r.ecs)
    /\ frame_state' = from
    /\ key' = k
    /\ systems_run' = r.ran
    /\ mob_view' = IF r.ran = <<>> THEN mob_view ELSE MobView(ecs)

TickPreRun ==
    /\ runstate = "PreRun"
    /\ Frame("PreRun", "NoPoll", pre_run_arm(ecs))

TickAwaitingInput ==
    /\ runstate = "AwaitingInput"
    /\ \E k \in Keys : Frame("AwaitingInput", k, awaiting_input_arm(ecs, k))

TickPlayerTurn ==
    /\ runstate = "PlayerTurn"
    /\ WithinBounds
    /\ Frame("PlayerTurn", "NoPoll", player_turn_arm(ecs))

TickMonsterTurn ==
    /\ runstate = "MonsterTurn"
    /\ WithinBounds
    /\ Frame("MonsterTurn", "NoPoll", monster_turn_arm(ecs))

TickShowInventory ==
    /\ runstate = "ShowInventory"
    /\ \E r \in MenuResults(ecs) : Frame("ShowInventory", r.result, show_inventory_arm(ecs, r))

TickShowDropItem ==
    /\ runstate = "ShowDropItem"
    /\ \E r \in MenuResults(ecs) : Frame("ShowDropItem", r.result, show_drop_item_arm(ecs, r))

TickSaveGame ==
    /\ runstate = "SaveGame"
    /\ Frame("SaveGame", "NoPoll", no_arm(ecs, runstate))

----------------------------------------------------------------------------
(* main (main.rs:148-198) *)

\* main.rs:191
InitialRunStateAwaiting == "AwaitingInput"

InitialRunState == "PreRun"

\* spawner::player, spawner::spawn_room: the monsters and items are created in
\* the rooms after room 0, here the two floor columns farthest from the
\* player; monsters stand on distinct tiles, taken in tile order.
SpawnRoom == {p \in FloorPoints : p[1] >= MapWidth - 3 /\ p # PlayerStart}

Spawns ==
    {f \in [Monsters \cup Items -> SpawnRoom] :
        /\ \A m, n \in Monsters : m < n => idx_of(f[m]) < idx_of(f[n])
        /\ \A i, j \in Items : i < j => idx_of(f[i]) <= idx_of(f[j])}

NewWorld(spawn) ==
    [entities |-> Entities,
     position |-> [e \in Entities |-> IF e = PlayerEntity THEN PlayerStart ELSE spawn[e]],
     viewshed |-> [e \in {PlayerEntity} \cup Monsters |-> [visible_tiles |-> {}, dirty |-> TRUE]],
     monster |-> Monsters,
     blocks_tile |-> {PlayerEntity} \cup Monsters,
     combat_stats |->
        [e \in {PlayerEntity} \cup Monsters |->
            IF e = PlayerEntity
            THEN [max_hp |-> PlayerMaxHp, hp |-> PlayerMaxHp,
                  defense |-> PlayerDefense, power |-> PlayerPower]
            ELSE [max_hp |-> MonsterMaxHp, hp |-> MonsterMaxHp,
                  defense |-> IF e % 2 = 1 THEN MonsterDefense ELSE MonsterDefenseHigh,
                  power |-> MonsterPower]],
     wants_to_melee |-> Empty,
     suffer_damage |-> Empty,
     item |-> Items,
     potion |-> [i \in Items |-> [heal_amount |-> HealAmount]],
     in_backpack |-> Empty,
     wants_to_pickup |-> Empty,
     wants_to_drink |-> Empty,
     wants_to_drop |-> Empty,
     ppos |-> PlayerStart,
     map |-> [blocked |-> [i \in TileIdx |-> FALSE],
              tile_content |-> [i \in TileIdx |-> <<>>]],
     gamelog |-> <<"welcome">>,
     game_over |-> FALSE]

Init ==
    /\ runstate = InitialRunState
    /\ \E spawn \in Spawns : ecs = NewWorld(spawn)
    /\ frame_state = "None"
    /\ key = "NoPoll"
    /\ systems_run = <<>>
    /\ mob_view = [viewsheds_clean |-> TRUE, queried |-> FALSE, blocked_fresh |-> TRUE]

Next ==
    \/ TickPreRun
    \/ TickAwaitingInput
    \/ TickPlayerTurn
    \/ TickMonsterTurn
    \/ TickShowInventory
    \/ TickShowDropItem
    \/ TickSaveGame

Spec == Init /\ [][Next]_vars

----------------------------------------------------------------------------
(* Properties *)

PipelineStates == {"PreRun", "PlayerTurn", "MonsterTurn"}
InputStates == {"AwaitingInput", "ShowInventory", "ShowDropItem"}

\* C1: every frame that runs the pipeline executes the eight systems once
\* each, in the order visibility, monster AI, map indexing, melee combat,
\* damage, item pickup, potion use, item drop; no other frame runs a system;
\* and when MonsterAI decides every Viewshed has already been recomputed.
C1_PipelineOrder ==
    /\ frame_state \in PipelineStates =>
          /\ systems_run = <<"visibility", "monster_ai", "map_index", "melee_combat",
                             "damage", "item_pickup", "potion_use", "item_drop">>
          /\ mob_view.viewsheds_clean
    /\ frame_state \notin PipelineStates => systems_run = <<>>

\* a PlayerTurn frame that followed a move of the player has run the pipeline
C1_Witness ==
    /\ frame_state = "PlayerTurn"
    /\ systems_run # <<>>
    /\ ecs.position[PlayerEntity] # PlayerStart

\* C2: in every tick after the first frame, a monster that takes a step reads
\* a blocked index that agrees with the Positions of that moment (the index
\* was rebuilt after the latest position change and before MonsterAI ran).
C2_MobReadsCurrentIndex ==
    (frame_state \in {"PlayerTurn", "MonsterTurn"} /\ mob_view.queried)
        => mob_view.blocked_fresh

\* C3: a PlayerTurn frame runs the whole pipeline once, reads no input and
\* leaves MonsterTurn; a MonsterTurn frame runs the whole pipeline once, reads
\* no input and leaves AwaitingInput.
C3_TurnCycle ==
    [][/\ runstate = "PlayerTurn" =>
            /\ runstate' = "MonsterTurn"
            /\ systems_run' = SystemOrder
            /\ key' = "NoPoll"
       /\ runstate = "MonsterTurn" =>
            /\ runstate' = "AwaitingInput"
            /\ systems_run' = SystemOrder
            /\ key' = "NoPoll"
            /\ frame_state = "PlayerTurn"]_vars

\* the scheduler is back in AwaitingInput after the two pipeline frames
C3_Witness ==
    /\ runstate = "AwaitingInput"
    /\ frame_state = "MonsterTurn"
    /\ systems_run = SystemOrder

\* The index and the player's viewshed have been computed.
IndexAndViewReady(w) ==
    /\ \A i \in TileIdx : IsWall(point_of(i)) => w.map.blocked[i]
    /\ w.viewshed[PlayerEntity].visible_tiles # {}

\* C4: the PreRun frame runs the pipeline once and leaves AwaitingInput;
\* PreRun is never entered again; and every frame that reads input finds the
\* map index and the player's visibility computed.
C4_PreRunOnce ==
    [][/\ runstate = "PreRun" =>
            /\ runstate' = "AwaitingInput"
            /\ systems_run' = SystemOrder
       /\ runstate # "PreRun" => runstate' # "PreRun"
       /\ frame_state' \in InputStates => IndexAndViewReady(ecs)]_vars

\* the first frame is over
C4_Witness ==
    /\ frame_state = "PreRun"
    /\ runstate = "AwaitingInput"
    /\ IndexAndViewReady(ecs)

\* C5: an AwaitingInput frame with no key pressed leaves the RunState
\* AwaitingInput and the whole store (entities, components, intents, map
\* index, player position, log) as it was.
C5_NoKeyNoChange ==
    [][(frame_state' = "AwaitingInput" /\ key' = "None") =>
            /\ runstate' = "AwaitingInput"
            /\ ecs' = ecs
            /\ systems_run' = <<>>]_vars

\* a frame without a key after a complete turn
C5_Witness ==
    /\ frame_state = "AwaitingInput"
    /\ key = "None"
    /\ ecs.position[PlayerEntity] # PlayerStart

\* The store after a move command: unchanged, or the player holds a new
\* WantsToMelee, or the player moved (Position, Point, dirty Viewshed).
MoveOutcome(w, v) ==
    \/ v = w
    \/ \E t \in DOMAIN w.combat_stats :
          v = [w EXCEPT !.wants_to_melee = Insert(@, PlayerEntity, [target |-> t])]
    \/ \E d \in FloorPoints :
          v = [w EXCEPT !.position[PlayerEntity] = d,
                        !.ppos = d,
                        !.viewshed[PlayerEntity].dirty = TRUE]

\* The store after a pickup command: a log line, or a WantsToPickupItem.
PickupOutcome(w, v) ==
    \/ v = Log(w, "nothing")
    \/ \E i \in w.item :
          v = [w EXCEPT !.wants_to_pickup =
                  Insert(@, PlayerEntity, [collected_by |-> PlayerEntity, item |-> i])]

C7_MenuFrames ==
    [][/\ frame_state' = "ShowInventory" =>
            /\ key' = "Selected" =>
                  /\ runstate' = "PlayerTurn"
                  /\ \E i \in Carried(ecs) :
                        ecs' = [ecs EXCEPT !.wants_to_drink =
                                    Insert(@, PlayerEntity, [potion |-> i])]
            /\ key' = "Cancel" => runstate' = "AwaitingInput" /\ ecs' = ecs
            /\ key' = "NoResponse" => runstate' = "ShowInventory" /\ ecs' = ecs
       /\ frame_state' = "ShowDropItem" =>
            /\ key' = "Selected" =>
                  /\ runstate' = "PlayerTurn"
                  /\ \E i \in Carried(ecs) :
                        ecs' = [ecs EXCEPT !.wants_to_drop =
                                    Insert(@, PlayerEntity, [item |-> i])]
            /\ key' = "Cancel" => runstate' = "AwaitingInput" /\ ecs' = ecs
            /\ key' = "NoResponse" => runstate' = "ShowDropItem" /\ ecs' = ecs
       /\ frame_state' \in {"ShowInventory", "ShowDropItem"} => systems_run' = <<>>]_vars

\* a potion was selected in the inventory menu
C7_Witness ==
    /\ frame_state = "ShowInventory"
    /\ key = "Selected"
    /\ runstate = "PlayerTurn"
    /\ PlayerEntity \in DOMAIN ecs.wants_to_drink

\* C8: once the sweep has found the player dead, no frame runs the pipeline
\* and no command is accepted.
C8_DeathIsTerminal ==
    [][ecs.game_over =>
            /\ systems_run' = <<>>
            /\ ~(frame_state' \in InputStates /\ runstate' = "PlayerTurn")]_vars

C10_DeadAreSwept ==
    \A e \in DOMAIN ecs.combat_stats \ {PlayerEntity} :
        /\ ecs.combat_stats[e].hp > 0
        /\ e \in ecs.entities

\* a monster was killed in the PlayerTurn frame that just ended
C10_Witness ==
    /\ runstate = "MonsterTurn"
    /\ \E m \in Monsters : m \notin ecs.entities
    /\ Len(ecs.gamelog) > 0
    /\ ecs.gamelog[Len(ecs.gamelog)] = "dead"

\* The entities that hold a transient intent.
IntentHolders(w) ==
    DOMAIN w.wants_to_melee \cup DOMAIN w.wants_to_pickup
        \cup DOMAIN w.wants_to_drink \cup DOMAIN w.wants_to_drop

\* C11: whenever a frame is about to read input (AwaitingInput, ShowInventory
\* or ShowDropItem) no entity holds a WantsToMelee, WantsToPickupItem,
\* WantsToDrinkPotion or WantsToDropItem, and no pending damage is left: the
\* pipeline run after an intent's creation consumed it, so no intent is
\* inserted over an older one.
C11_IntentsConsumed ==
    /\ runstate \in InputStates =>
          IntentHolders(ecs) = {} /\ DOMAIN ecs.suffer_damage = {}
    /\ runstate = "MonsterTurn" => IntentHolders(ecs) = {}
    /\ runstate = "PlayerTurn" => IntentHolders(ecs) \subseteq {PlayerEntity}

\* input is awaited after a pickup intent and the monsters' melee intents
\* have been consumed
C11_Witness ==
    /\ runstate = "AwaitingInput"
    /\ Carried(ecs) # {}
    /\ ecs.combat_stats[PlayerEntity].hp < PlayerMaxHp
    /\ IntentHolders(ecs) = {}

\* The PlayerTurn frame that resolves the player's WantsToMelee: the target
\* loses `damage` hp without moving; with hp <= 0 it is destroyed by the end
\* of the frame and the log ends with the death line, otherwise it keeps its
\* Position.
MeleeFrame(damage(_)) ==
    (runstate = "PlayerTurn" /\ PlayerEntity \in DOMAIN ecs.wants_to_melee) =>
        LET t == ecs.wants_to_melee[PlayerEntity].target
            hp == ecs.combat_stats[t].hp - damage(t)
        IN /\ t \in ecs.monster
           /\ run_systems(ecs).position[t] = ecs.position[t]
           /\ run_systems(ecs).combat_stats[t].hp = hp
           /\ IF hp <= 0
              THEN /\ t \notin ecs'.entities
                   /\ t \notin DOMAIN ecs'.position
                   /\ ecs'.gamelog[Len(ecs'.gamelog)] = "dead"
              ELSE /\ ecs'.combat_stats[t].hp = hp
                   /\ ecs'.position[t] = ecs.position[t]

DifferenceDamage(t) ==
    ecs.combat_stats[PlayerEntity].power - ecs.combat_stats[t].defense

FlooredDamage(t) == Max(1, DifferenceDamage(t))

\* C12 as stated: the PlayerTurn frame after an attack command reduces the
\* monster's hp by (player power - monster defense); at hp <= 0 the monster
\* is destroyed in that frame with a death log line, and it did not move.
C12_MeleeSubtractsDifference == [][MeleeFrame(DifferenceDamage)]_vars

\* C12 amended: the PlayerTurn frame after an attack command reduces the
\* monster's hp by max(1, player power - monster defense); at hp <= 0 the
\* monster is destroyed in that frame with a death log line, and it did not
\* move.
C12_MeleeResolves == [][MeleeFrame(FlooredDamage)]_vars

\* a PlayerTurn frame has hit a monster whose defense is not below the
\* player's power, and the monster survived
C12_Witness ==
    /\ frame_state = "PlayerTurn"
    /\ \E m \in ecs.monster :
          /\ ecs.combat_stats[m].defense >= PlayerPower
          /\ ecs.combat_stats[m].hp = MonsterMaxHp - 1

\* C13: a selection in ShowDropItem goes to PlayerTurn with the player's
\* WantsToDropItem attached; once the PlayerTurn frame has run, the item's
\* Position is the player's Position, the item holds no InBackpack and no
\* WantsToDropItem is left.
C13_DropLandsAtPlayer ==
    [][/\ (frame_state' = "ShowDropItem" /\ key' = "Selected") =>
            /\ runstate' = "PlayerTurn"
            /\ PlayerEntity \in DOMAIN ecs'.wants_to_drop
            /\ ecs'.wants_to_drop[PlayerEntity].item \in Carried(ecs)
       /\ (runstate = "PlayerTurn" /\ PlayerEntity \in DOMAIN ecs.wants_to_drop) =>
            LET i == ecs.wants_to_drop[PlayerEntity].item
            IN /\ i \in ecs'.entities
               /\ i \in DOMAIN ecs'.position
               /\ ecs'.position[i] = ecs'.position[PlayerEntity]
               /\ ecs'.position[i] = ecs.position[PlayerEntity]
               /\ i \notin DOMAIN ecs'.in_backpack
               /\ DOMAIN ecs'.wants_to_drop = {}]_vars

\* the PlayerTurn frame after a drop has put a carried item on a tile other
\* than the one it was spawned or picked up on
C13_Witness ==
    /\ frame_state = "PlayerTurn"
    /\ ecs.gamelog[Len(ecs.gamelog)] = "drop"
    /\ \E i \in ecs.item :
          /\ i \in DOMAIN ecs.position
          /\ i \notin DOMAIN ecs.in_backpack
          /\ ecs.position[i] = ecs.position[PlayerEntity]
          /\ ecs.position[i] \notin SpawnRoom

\* Every live item holds exactly one of Position and InBackpack, and a
\* destroyed item holds nothing.
ItemsPlaced(w) ==
    /\ w.item \subseteq w.entities
    /\ \A i \in w.item : (i \in DOMAIN w.position) # (i \in DOMAIN w.in_backpack)
    /\ \A i \in Items \ w.entities :
          i \notin DOMAIN w.position \cup DOMAIN w.in_backpack \cup DOMAIN w.potion

\* C14: at the end of every frame each live item holds exactly one of
\* Position and InBackpack, and the potion named by the WantsToDrinkPotion
\* that a PlayerTurn frame resolves no longer exists after that frame.
C14_ItemsPlaced ==
    [][/\ ItemsPlaced(ecs')
       /\ (runstate = "PlayerTurn" /\ PlayerEntity \in DOMAIN ecs.wants_to_drink) =>
            /\ ecs.wants_to_drink[PlayerEntity].potion \notin ecs'.entities
            /\ ecs.wants_to_drink[PlayerEntity].potion \notin ecs'.item
            /\ DOMAIN ecs'.wants_to_drink = {}]_vars

\* a potion was picked up and drunk
C14_Witness ==
    /\ frame_state = "PlayerTurn"
    /\ ecs.gamelog[Len(ecs.gamelog)] = "drink"
    /\ \E i \in Items : i \notin ecs.entities
    /\ ItemsPlaced(ecs)

\* the items lying on the player's tile
ItemsHere(w) ==
    {i \in w.item \cap DOMAIN w.position : w.position[i] = w.position[PlayerEntity]}

\* C15: a pickup command with no item on the player's tile only appends a
\* log message and creates no WantsToPickupItem; with an item there it
\* creates exactly one WantsToPickupItem, on the player, collected by the
\* player and naming an item whose Position is the player's, and changes
\* nothing else; both cases go to PlayerTurn.
C15_PickupCommand ==
    [][(frame_state' = "AwaitingInput" /\ key' = "G") =>
          /\ runstate' = "PlayerTurn"
          /\ ItemsHere(ecs) = {} =>
                /\ ecs' = [ecs EXCEPT !.gamelog = ecs'.gamelog]
                /\ ecs'.gamelog[Len(ecs'.gamelog)] = "nothing"
                /\ DOMAIN ecs'.wants_to_pickup = {}
          /\ ItemsHere(ecs) # {} =>
                /\ ecs' = [ecs EXCEPT !.wants_to_pickup = ecs'.wants_to_pickup]
                /\ DOMAIN ecs'.wants_to_pickup = {PlayerEntity}
                /\ ecs'.wants_to_pickup[PlayerEntity].collected_by = PlayerEntity
                /\ ecs'.wants_to_pickup[PlayerEntity].item \in ItemsHere(ecs)]_vars

\* a pickup command found an item on the player's tile
C15_Witness ==
    /\ frame_state = "AwaitingInput"
    /\ key = "G"
    /\ runstate = "PlayerTurn"
    /\ PlayerEntity \in DOMAIN ecs.wants_to_pickup
    /\ ecs.wants_to_pickup[PlayerEntity].item \in ItemsHere(ecs)

\* a pickup command found nothing while an item lay elsewhere
C15_WitnessNothing ==
    /\ frame_state = "AwaitingInput"
    /\ key = "G"
    /\ runstate = "PlayerTurn"
    /\ ecs.gamelog[Len(ecs.gamelog)] = "nothing"
    /\ ecs.item \cap DOMAIN ecs.position # {}
    /\ DOMAIN ecs.wants_to_pickup = {}

\* the tile a move command with key k aims at
Destination(w, k) ==
    <<w.position[PlayerEntity][1] + DeltaX(k), w.position[PlayerEntity][2] + DeltaY(k)>>

\* the entities with CombatStats standing on the tile p
Fighters(w, p) ==
    {t \in DOMAIN w.combat_stats \cap DOMAIN w.position : w.position[t] = p}

\* C16: a move command whose destination tile holds an entity with
\* CombatStats attaches exactly one WantsToMelee to the player, whose target
\* is the first such entity in the destination's tile_content and stands on
\* that tile, and changes nothing else: the player's Position, the Point
\* resource and the Viewshed's dirty flag stay as they were.
C16_AttackInsteadOfMove ==
    [][(/\ frame_state' = "AwaitingInput"
        /\ key' \in MoveKeys
        /\ Fighters(ecs, Destination(ecs, key')) # {}) =>
          LET dest == Destination(ecs, key')
              listed == SelectSeq(ecs.map.tile_content[idx_of(dest)],
                                  LAMBDA t : t \in DOMAIN ecs.combat_stats)
          IN /\ runstate' = "PlayerTurn"
             /\ ecs' = [ecs EXCEPT !.wants_to_melee = ecs'.wants_to_melee]
             /\ DOMAIN ecs.wants_to_melee = {}
             /\ DOMAIN ecs'.wants_to_melee = {PlayerEntity}
             /\ listed # <<>>
             /\ ecs'.wants_to_melee[PlayerEntity].target = Head(listed)
             /\ ecs'.wants_to_melee[PlayerEntity].target \in Fighters(ecs, dest)
             /\ ecs'.position[PlayerEntity] = ecs.position[PlayerEntity]
             /\ ecs'.ppos = ecs.ppos
             /\ ecs'.viewshed[PlayerEntity].dirty = ecs.viewshed[PlayerEntity].dirty]_vars

\* the player attacked a monster on a blocked tile and stayed in place
C16_Witness ==
    /\ frame_state = "AwaitingInput"
    /\ key \in MoveKeys
    /\ runstate = "PlayerTurn"
    /\ PlayerEntity \in DOMAIN ecs.wants_to_melee
    /\ ecs.wants_to_melee[PlayerEntity].target \in Fighters(ecs, Destination(ecs, key))
    /\ ecs.map.blocked[idx_of(Destination(ecs, key))]
    /\ ~ecs.viewshed[PlayerEntity].dirty

\* the range test of player.rs:20
OutOfRange(p) ==
    p[1] < 1 \/ p[1] > MapWidth - 1 \/ p[2] < 1 \/ p[2] > MapHeight - 1

\* C17: a move command whose destination is out of range, or is blocked and
\* holds no entity with CombatStats, leaves the whole store as it was and
\* still goes to PlayerTurn.
C17_RefusedMoveTakesTurn ==
    [][(/\ frame_state' = "AwaitingInput"
        /\ key' \in MoveKeys
        /\ \/ OutOfRange(Destination(ecs, key'))
           \/ /\ ecs.map.blocked[idx_of(Destination(ecs, key'))]
              /\ Fighters(ecs, Destination(ecs, key')) = {}) =>
          /\ ecs' = ecs
          /\ runstate' = "PlayerTurn"]_vars

\* a move into a wall inside the range was refused and took the turn
C17_Witness ==
    /\ frame_state = "AwaitingInput"
    /\ key \in MoveKeys
    /\ runstate = "PlayerTurn"
    /\ ~OutOfRange(Destination(ecs, key))
    /\ ecs.map.blocked[idx_of(Destination(ecs, key))]
    /\ Fighters(ecs, Destination(ecs, key)) = {}
    /\ IntentHolders(ecs) = {}
    /\ ~ecs.viewshed[PlayerEntity].dirty

\* a move out of the range was refused and took the turn
C17_WitnessOutOfRange ==
    /\ frame_state = "AwaitingInput"
    /\ key \in MoveKeys
    /\ runstate = "PlayerTurn"
    /\ OutOfRange(Destination(ecs, key))
    /\ IntentHolders(ecs) = {}
    /\ ~ecs.viewshed[PlayerEntity].dirty

\* the Point resource is the player's Position, a tile of the map
PointTracksPlayer(w) ==
    /\ PlayerEntity \in DOMAIN w.position
    /\ w.ppos = w.position[PlayerEntity]
    /\ w.position[PlayerEntity] \in MapPoints

\* C18: the Point resource always equals the player's Position, which stays
\* inside the map; and whenever the player's Position changes, the tile it
\* changes to was unblocked in the index before the move and the player's
\* Viewshed is dirty after it.
C18_PointTracksPlayer ==
    /\ PointTracksPlayer(ecs)
    /\ [][/\ PointTracksPlayer(ecs')
          /\ ecs'.position[PlayerEntity] # ecs.position[PlayerEntity] =>
                /\ ~ecs.map.blocked[idx_of(ecs'.position[PlayerEntity])]
                /\ ecs'.viewshed[PlayerEntity].dirty
                /\ frame_state' = "AwaitingInput"
                /\ ecs'.position[PlayerEntity] = Destination(ecs, key')]_vars

\* the player has just moved
C18_Witness ==
    /\ frame_state = "AwaitingInput"
    /\ key \in MoveKeys
    /\ ecs.position[PlayerEntity] # PlayerStart
    /\ ecs.viewshed[PlayerEntity].dirty
    /\ ecs.ppos = ecs.position[PlayerEntity]

\* The spatial index of w agrees with the entities of w: blocked is true
\* exactly on walls and on tiles where a BlocksTile entity stands, and
\* tile_content lists, for every tile, exactly the live entities whose
\* Position is that tile.
IndexAgrees(w) ==
    /\ \A i \in TileIdx :
          w.map.blocked[i] <=>
              \/ IsWall(point_of(i))
              \/ \E e \in w.blocks_tile \cap w.entities \cap DOMAIN w.position :
                    idx_of(w.position[e]) = i
    /\ \A i \in TileIdx :
          LET listed == w.map.tile_content[i]
          IN /\ \A n \in 1 .. Len(listed) :
                   /\ listed[n] \in w.entities
                   /\ listed[n] \in DOMAIN w.position
                   /\ idx_of(w.position[listed[n]]) = i
             /\ \A e \in w.entities \cap DOMAIN w.position :
                   idx_of(w.position[e]) = i => \E n \in 1 .. Len(listed) : listed[n] = e

\* C19: at input time the blocked and tile_content indexes agree with the
\* entities of that moment, and so the target of a WantsToMelee the player
\* has just been given by a move command is alive and stands on the
\* destination tile.
C19_IndexFreshAtInput ==
    /\ runstate = "AwaitingInput" => IndexAgrees(ecs)
    /\ (/\ frame_state = "AwaitingInput"
        /\ key \in MoveKeys
        /\ PlayerEntity \in DOMAIN ecs.wants_to_melee) =>
          LET t == ecs.wants_to_melee[PlayerEntity].target
          IN /\ t \in ecs.entities
             /\ t \in DOMAIN ecs.position
             /\ ecs.position[t] = Destination(ecs, key)

\* input is read after a turn that followed the death of a monster, with
\* the player away from the start tile and the item off the floor
C19_Witness ==
    /\ runstate = "AwaitingInput"
    /\ frame_state = "MonsterTurn"
    /\ Monsters \ ecs.entities # {}
    /\ ecs.position[PlayerEntity] # PlayerStart
    /\ \E i \in ecs.item : i \notin DOMAIN ecs.position
    /\ IndexAgrees(ecs)

\* the tile-blocking entities of w that stand somewhere
Blockers(w) == w.blocks_tile \cap w.entities \cap DOMAIN w.position

\* C20: at the end of a pipeline run no two tile-blocking entities (the
\* player and the monsters) hold the same Position.
C20_NoSharedTile ==
    systems_run # <<>> =>
        \A a, b \in Blockers(ecs) : a # b => ecs.position[a] # ecs.position[b]

====
